---- MODULE Spec2Model ----
(***************************************************************************)
(* Identity sync and credit ledger of the image editor: the store          *)
(* connection manager (lib/database/mongoose.ts), the user actions         *)
(* (lib/actions/user.actions.ts), the Clerk webhook handler and the        *)
(* purchase settlement over the User and Transaction collections.          *)
(***************************************************************************)
EXTENDS Integers, Sequences, FiniteSets, TLC

VARIABLES
    MONGODB_URL,    \* TRUE iff process.env.MONGODB_URL is set
    WEBHOOK_SECRET, \* TRUE iff process.env.WEBHOOK_SECRET is set
    cached,         \* the global connection cache {conn, promise}
    promises,       \* promises[k]: state of the k-th mongoose.connect() call
    users,          \* documents of the User collection
    transactions,   \* documents of the Transaction collection
    nextId,         \* next fresh ObjectId
    procs,          \* the concurrently running invocations
    metadata,       \* Clerk publicMetadata.userId per Clerk user
    grants          \* history: credit grants applied per payment id

vars == <<MONGODB_URL, WEBHOOK_SECRET, cached, promises, users, transactions, nextId, procs, metadata, grants>>

\* ------------------------------------------------------------------ bounds

NumProcs == 3
NumCallers == 4
MaxAttempts == 2

\* Concurrent calls of the user actions from the page layer.
NumApiCalls == 2

Procs == 1..NumProcs

Callers == 1..NumCallers

\* ------------------------------------------------------- program constants

DefaultPlanId == 1
DefaultCreditBalance == 10

\* ------------------------------------------------------------ value spaces

Null == 0

NoDoc ==
    [_id |-> Null, clerkId |-> "", email |-> "", username |-> "", photo |-> "",
     firstName |-> "", lastName |-> "", planId |-> 0, creditBalance |-> 0]

NoEvent ==
    [type |-> "", id |-> "", email |-> "", username |-> "", first_name |-> "",
     last_name |-> "", image_url |-> ""]

NoPayment ==
    [stripeId |-> "", amount |-> 0, credits |-> 0, plan |-> "", buyerId |-> Null]

NoError == [name |-> "", code |-> 0, key |-> "", message |-> ""]

\* What a call has produced so far: nothing, a value or a thrown error.
Pending == [kind |-> "pending", conn |-> Null, doc |-> NoDoc, error |-> NoError]

Returned(doc) == [kind |-> "value", conn |-> Null, doc |-> doc, error |-> NoError]

ReturnedConn(c) == [kind |-> "value", conn |-> c, doc |-> NoDoc, error |-> NoError]

Thrown(err) == [kind |-> "error", conn |-> Null, doc |-> NoDoc, error |-> err]

JsError(msg) == [name |-> "Error", code |-> 0, key |-> "", message |-> msg]

\* The driver's rejection of a connection attempt.
ConnectionError ==
    [name |-> "MongooseServerSelectionError", code |-> 0, key |-> "",
     message |-> "connect ECONNREFUSED"]

\* The server's rejection of a write that violates the unique index on `key`.
DuplicateKeyError(key) ==
    [name |-> "MongoServerError", code |-> 11000, key |-> key,
     message |-> "E11000 duplicate key error"]

\* The failure of a store operation that ran out of its time bound.
TimeoutError ==
    [name |-> "Timeout", code |-> 0, key |-> "", message |-> "operation timed out"]

IdleProc ==
    [handler |-> "idle", op |-> "none", pc |-> "idle", awaiting |-> Null,
     evt |-> NoEvent, pay |-> NoPayment, userId |-> Null, creditFee |-> 0,
     found |-> Null, ret |-> Pending, cause |-> NoError, status |-> 0,
     recorded |-> "", granted |-> FALSE, lost |-> FALSE, svix |-> ""]

\* ------------------------------------------------------------ error handling

\* handleError: every caught error is rethrown as a plain Error whose message
\* is the original message behind the prefix "Error: ".
handleError(error) ==
    JsError("Error: " \o error.message)

\* ---------------------------------------------------- continuation of a call

\* JSON.parse(JSON.stringify(doc)): the plain copy of a document. Every field
\* kept here is a string or a number, which the round trip preserves; the
\* ObjectId becomes its hexadecimal text, which names the same id.
Serialize(doc) ==
    [f \in DOMAIN doc |-> doc[f]]

PostAfterOpAlwaysMetadata(q) ==
    IF q.op = "createUser"
    THEN [q EXCEPT !.pc = "metadata"]
    ELSE IF q.ret.kind = "error"
    THEN [q EXCEPT !.pc = "done"]
    ELSE [q EXCEPT !.pc = "done", !.status = 200]

\* The webhook handler after the user action it awaited has settled.
PostAfterOp(q) ==
    IF q.ret.kind = "error"
    THEN [q EXCEPT !.pc = "done"]
    ELSE IF q.op = "createUser" /\ q.ret.doc # NoDoc
    THEN [q EXCEPT !.pc = "metadata"]
    ELSE [q EXCEPT !.pc = "done", !.status = 200]

SettleAfterOpCreditAlways(q) ==
    IF q.op = "record"
    THEN [q EXCEPT !.pc = "credit", !.recorded = IF q.ret.kind = "value" THEN "ok" ELSE "AlreadyRecorded"]
    ELSE [q EXCEPT !.pc = "done", !.status = 200]

\* The settlement handler after the step it awaited has settled: a record
\* that fails as already recorded ends the settlement in success, a recorded
\* payment goes on to the credit step, and a failed credit step is surfaced as
\* a detected inconsistency.
SettleAfterOp(q) ==
    IF q.op = "record"
    THEN IF q.ret.kind = "value"
         THEN [q EXCEPT !.pc = "credit", !.recorded = "ok"]
         ELSE IF q.ret.error.code = 11000 /\ q.ret.error.key = "stripeId"
         THEN [q EXCEPT !.pc = "done", !.recorded = "AlreadyRecorded", !.status = 200, !.ret = Returned(NoDoc)]
         ELSE [q EXCEPT !.pc = "done", !.recorded = "failed"]
    ELSE IF q.ret.kind = "value"
    THEN [q EXCEPT !.pc = "done", !.status = 200]
    ELSE [q EXCEPT !.pc = "done", !.ret = Thrown([q.ret.error EXCEPT !.name = "InconsistencyDetected"])]

\* The outcome the caller of a store operation sees: when the response of the
\* store is lost (q.lost) the operation ends in Timeout whatever the store did.
Lost(q) ==
    IF q.lost
    THEN [q EXCEPT !.lost = FALSE, !.cause = TimeoutError,
                   !.ret = Thrown(IF q.op = "record" THEN TimeoutError ELSE handleError(TimeoutError))]
    ELSE q

\* The invocation after its current call has returned or thrown (q.ret).
OpEnd(q) ==
    IF Lost(q).handler = "POST" THEN PostAfterOp(Lost(q))
    ELSE IF Lost(q).handler = "settle" THEN SettleAfterOp(Lost(q))
    ELSE [Lost(q) EXCEPT !.pc = "done"]

FailSwallowed(q, err) ==
    OpEnd([q EXCEPT !.cause = err, !.ret = Returned(NoDoc)])

\* catch (error) { handleError(error) } of the user actions; connectToDatabase
\* and the transaction recorder throw the error as it is. cause keeps the
\* error as it was raised, for the record.
Fail(q, err) ==
    OpEnd([q EXCEPT !.cause = err,
                    !.ret = Thrown(IF q.op \in {"connectToDatabase", "record"} THEN err ELSE handleError(err))])

\* The caller once connectToDatabase has handed it the handle c.
AfterConnect(q, c) ==
    IF q.op = "connectToDatabase"
    THEN OpEnd([q EXCEPT !.ret = ReturnedConn(c)])
    ELSE [q EXCEPT !.pc = "connected"]

\* ------------------------------------------------------- connection manager

\* The handle the k-th connection attempt resolves to.
Handle(k) == k

ForgetRejected(promise) ==
    IF promise # Null /\ promises[promise] = "rejected" THEN Null ELSE promise

NewAttemptAlways(promise) ==
    Null

\* cached.promise || mongoose.connect(...): Null asks for a new attempt.
MemoizedPromise(promise) ==
    promise

ConnectUnchecked(p, q) ==
    IF cached.conn # Null
    THEN /\ procs' = [procs EXCEPT ![p] = AfterConnect(q, cached.conn)]
         /\ UNCHANGED <<cached, promises>>
    ELSE IF cached.promise # Null
    THEN /\ procs' = [procs EXCEPT ![p] = [q EXCEPT !.pc = "awaitConn", !.awaiting = cached.promise]]
         /\ UNCHANGED <<cached, promises>>
    ELSE /\ Len(promises) < MaxAttempts
         /\ promises' = Append(promises, "pending")
         /\ cached' = [cached EXCEPT !.promise = Len(promises) + 1]
         /\ procs' = [procs EXCEPT ![p] = [q EXCEPT !.pc = "awaitConn", !.awaiting = Len(promises) + 1]]

\* The synchronous part of connectToDatabase, run by p once it has become q.
connectToDatabase(p, q) ==
    IF cached.conn # Null
    THEN /\ procs' = [procs EXCEPT ![p] = AfterConnect(q, cached.conn)]
         /\ UNCHANGED <<cached, promises>>
    ELSE IF ~MONGODB_URL
    THEN /\ procs' = [procs EXCEPT ![p] = Fail(q, JsError("Missing MONGODB_URL"))]
         /\ UNCHANGED <<cached, promises>>
    ELSE IF MemoizedPromise(cached.promise) # Null
    THEN /\ cached' = [cached EXCEPT !.promise = MemoizedPromise(cached.promise)]
         /\ procs' = [procs EXCEPT ![p] = [q EXCEPT !.pc = "awaitConn", !.awaiting = MemoizedPromise(cached.promise)]]
         /\ UNCHANGED promises
    ELSE /\ Len(promises) < MaxAttempts
         /\ promises' = Append(promises, "pending")
         /\ cached' = [cached EXCEPT !.promise = Len(promises) + 1]
         /\ procs' = [procs EXCEPT ![p] = [q EXCEPT !.pc = "awaitConn", !.awaiting = Len(promises) + 1]]

\* A direct caller of connectToDatabase.
CallConnect(p) ==
    /\ procs[p].pc = "idle"
    /\ connectToDatabase(p, [procs[p] EXCEPT !.handler = "direct", !.op = "connectToDatabase"])
    /\ UNCHANGED <<MONGODB_URL, WEBHOOK_SECRET, users, transactions, nextId, metadata, grants>>

\* The driver settles a connection attempt.
ConnectSettles(k) ==
    /\ k \in 1..Len(promises)
    /\ promises[k] = "pending"
    /\ \E outcome \in {"fulfilled", "rejected"} : promises' = [promises EXCEPT ![k] = outcome]
    /\ UNCHANGED <<MONGODB_URL, WEBHOOK_SECRET, cached, users, transactions, nextId, procs, metadata, grants>>

\* cached.conn = await cached.promise, for a caller suspended on the promise.
ConnectResume(p) ==
    /\ procs[p].pc = "awaitConn"
    /\ promises[procs[p].awaiting] # "pending"
    /\ IF promises[procs[p].awaiting] = "fulfilled"
       THEN /\ cached' = [cached EXCEPT !.conn = Handle(procs[p].awaiting)]
            /\ procs' = [procs EXCEPT ![p] = AfterConnect(procs[p], Handle(procs[p].awaiting))]
       ELSE /\ procs' = [procs EXCEPT ![p] = Fail(procs[p], ConnectionError)]
            /\ UNCHANGED cached
    /\ UNCHANGED <<MONGODB_URL, WEBHOOK_SECRET, promises, users, transactions, nextId, metadata, grants>>

\* ------------------------------------------------------------ the User store

NoUniqueKeys ==
    <<>>

ClerkIdOnlyKeys ==
    <<"clerkId">>

\* The unique indexes of UserSchema, in the order the schema declares them.
UserUniqueKeys ==
    <<"clerkId", "email", "username">>

\* The unique index of TransactionSchema.
TransactionUniqueKeys ==
    <<"stripeId">>

\* The first unique index among keys that doc would violate in rows ("": none).
ViolatedIndex(rows, doc, keys) ==
    LET bad == {i \in 1..Len(keys) : \E r \in rows : r._id # doc._id /\ r[keys[i]] = doc[keys[i]]}
    IN  IF bad = {} THEN "" ELSE keys[CHOOSE i \in bad : \A j \in bad : i <= j]

NewUserDocNoDefaults(user, id) ==
    [_id |-> id, clerkId |-> user.clerkId, email |-> user.email,
     username |-> user.username, photo |-> user.photo,
     firstName |-> user.firstName, lastName |-> user.lastName,
     planId |-> 0, creditBalance |-> 0]

\* The document User.create stores for `user`: the schema's defaults fill
\* planId and creditBalance.
NewUserDoc(user, id) ==
    [_id |-> id, clerkId |-> user.clerkId, email |-> user.email,
     username |-> user.username, photo |-> user.photo,
     firstName |-> user.firstName, lastName |-> user.lastName,
     planId |-> DefaultPlanId, creditBalance |-> DefaultCreditBalance]

UpsertOptions ==
    [new |-> TRUE, upsert |-> TRUE]

\* The options updateUser passes to findOneAndUpdate: { new: true }.
UpdateUserOptions ==
    [new |-> TRUE, upsert |-> FALSE]

IncBalanceFloored(balance, creditFee) ==
    IF balance + creditFee < 0 THEN 0 ELSE balance + creditFee

SetBalance(balance, creditFee) ==
    creditFee

\* { $inc: { creditBalance: creditFee } }
IncBalance(balance, creditFee) ==
    balance + creditFee

ReplaceDocument(u, evt) ==
    NewUserDoc([clerkId |-> u.clerkId, email |-> u.email, username |-> evt.username,
                photo |-> evt.image_url, firstName |-> evt.first_name,
                lastName |-> evt.last_name], u._id)

\* The update document of updateUser, UpdateUserParams, applied to the matched
\* row u: it sets firstName, lastName, username and photo, and nothing else.
ApplyUpdate(u, evt) ==
    [u EXCEPT !.firstName = evt.first_name,
              !.lastName = evt.last_name,
              !.username = evt.username,
              !.photo = evt.image_url]

\* ------------------------------------------------------------- user actions

\* createUser: User.create(user) behind the unique indexes, as one store step.
UserCreateStep(p) ==
    /\ procs[p].pc = "connected"
    /\ procs[p].op = "createUser"
    /\ LET user == [clerkId |-> procs[p].evt.id, email |-> procs[p].evt.email,
                    username |-> procs[p].evt.username, firstName |-> procs[p].evt.first_name,
                    lastName |-> procs[p].evt.last_name, photo |-> procs[p].evt.image_url]
           doc == NewUserDoc(user, nextId)
           key == ViolatedIndex(users, doc, UserUniqueKeys)
       IN  IF key = ""
           THEN /\ users' = users \cup {doc}
                /\ nextId' = nextId + 1
                /\ procs' = [procs EXCEPT ![p] = OpEnd([procs[p] EXCEPT !.ret = Returned(Serialize(doc))])]
           ELSE /\ procs' = [procs EXCEPT ![p] = Fail(procs[p], DuplicateKeyError(key))]
                /\ UNCHANGED <<users, nextId>>
    /\ UNCHANGED <<MONGODB_URL, WEBHOOK_SECRET, cached, promises, transactions, metadata, grants>>

\* getUserById: User.findOne({ clerkId: userId }), throwing when there is none.
UserGetStep(p) ==
    /\ procs[p].pc = "connected"
    /\ procs[p].op = "getUserById"
    /\ LET match == {u \in users : u.clerkId = procs[p].evt.id}
       IN  IF match = {}
           THEN procs' = [procs EXCEPT ![p] = Fail(procs[p], JsError("User not found"))]
           ELSE procs' = [procs EXCEPT ![p] = OpEnd([procs[p] EXCEPT !.ret =
                    Returned(Serialize(CHOOSE u \in match : \A v \in match : u._id <= v._id))])]
    /\ UNCHANGED <<MONGODB_URL, WEBHOOK_SECRET, cached, promises, users, transactions, nextId, metadata, grants>>

\* updateUser: User.findOneAndUpdate({ clerkId }, user, { new: true }), no upsert.
UserUpdateStep(p) ==
    /\ procs[p].pc = "connected"
    /\ procs[p].op = "updateUser"
    /\ LET match == {u \in users : u.clerkId = procs[p].evt.id}
           inserted == NewUserDoc([clerkId |-> procs[p].evt.id, email |-> "",
                                   username |-> procs[p].evt.username, photo |-> procs[p].evt.image_url,
                                   firstName |-> procs[p].evt.first_name,
                                   lastName |-> procs[p].evt.last_name], nextId)
       IN  IF match = {} /\ UpdateUserOptions.upsert
           THEN /\ users' = users \cup {inserted}
                /\ nextId' = nextId + 1
                /\ procs' = [procs EXCEPT ![p] = OpEnd([procs[p] EXCEPT !.ret = Returned(Serialize(inserted))])]
           ELSE IF match = {}
           THEN /\ procs' = [procs EXCEPT ![p] = Fail(procs[p], JsError("User update failed"))]
                /\ UNCHANGED <<users, nextId>>
           ELSE LET u == CHOOSE u \in match : \A v \in match : u._id <= v._id
                    new == ApplyUpdate(u, procs[p].evt)
                    key == ViolatedIndex(users, new, UserUniqueKeys)
                IN  IF key = ""
                    THEN /\ users' = (users \ {u}) \cup {new}
                         /\ procs' = [procs EXCEPT ![p] = OpEnd([procs[p] EXCEPT !.ret = Returned(Serialize(new))])]
                         /\ UNCHANGED nextId
                    ELSE /\ procs' = [procs EXCEPT ![p] = Fail(procs[p], DuplicateKeyError(key))]
                         /\ UNCHANGED <<users, nextId>>
    /\ UNCHANGED <<MONGODB_URL, WEBHOOK_SECRET, cached, promises, transactions, metadata, grants>>

UserFindOneNoThrowStep(p) ==
    /\ procs[p].pc = "connected"
    /\ procs[p].op = "deleteUser"
    /\ LET match == {u \in users : u.clerkId = procs[p].evt.id}
       IN  IF match = {}
           THEN procs' = [procs EXCEPT ![p] = OpEnd([procs[p] EXCEPT !.ret = Returned(NoDoc)])]
           ELSE procs' = [procs EXCEPT ![p].pc = "found",
                                       ![p].found = (CHOOSE u \in match : TRUE)._id]
    /\ UNCHANGED <<MONGODB_URL, WEBHOOK_SECRET, cached, promises, users, transactions, nextId, metadata, grants>>

\* deleteUser, first store step: User.findOne({ clerkId }).
UserFindOneStep(p) ==
    /\ procs[p].pc = "connected"
    /\ procs[p].op = "deleteUser"
    /\ LET match == {u \in users : u.clerkId = procs[p].evt.id}
       IN  IF match = {}
           THEN procs' = [procs EXCEPT ![p] = Fail(procs[p], JsError("User not found"))]
           ELSE procs' = [procs EXCEPT ![p].pc = "found",
                                       ![p].found = (CHOOSE u \in match : \A v \in match : u._id <= v._id)._id]
    /\ UNCHANGED <<MONGODB_URL, WEBHOOK_SECRET, cached, promises, users, transactions, nextId, metadata, grants>>

UserDeleteReturnsFoundStep(p) ==
    /\ procs[p].pc = "found"
    /\ users' = {u \in users : u._id # procs[p].found}
    /\ procs' = [procs EXCEPT ![p] = OpEnd([procs[p] EXCEPT !.ret =
           Returned([NoDoc EXCEPT !._id = procs[p].found, !.clerkId = procs[p].evt.id])])]
    /\ UNCHANGED <<MONGODB_URL, WEBHOOK_SECRET, cached, promises, transactions, nextId, metadata, grants>>

UserDeleteCascadeStep(p) ==
    /\ procs[p].pc = "found"
    /\ users' = {u \in users : u._id # procs[p].found}
    /\ transactions' = {t \in transactions : t.buyer # procs[p].found}
    /\ procs' = [procs EXCEPT ![p] = OpEnd([procs[p] EXCEPT !.ret = Returned(NoDoc)])]
    /\ UNCHANGED <<MONGODB_URL, WEBHOOK_SECRET, cached, promises, nextId, metadata, grants>>

\* deleteUser, second store step: User.findByIdAndDelete(userToDelete._id);
\* the action returns the removed document, or null when it was gone.
UserFindByIdAndDeleteStep(p) ==
    /\ procs[p].pc = "found"
    /\ LET match == {u \in users : u._id = procs[p].found}
       IN  /\ users' = users \ match
           /\ procs' = [procs EXCEPT ![p] = OpEnd([procs[p] EXCEPT !.ret =
                  IF match = {} THEN Returned(NoDoc) ELSE Returned(Serialize(CHOOSE u \in match : TRUE))])]
    /\ UNCHANGED <<MONGODB_URL, WEBHOOK_SECRET, cached, promises, transactions, nextId, metadata, grants>>

\* updateCredits: User.findOneAndUpdate({ _id }, { $inc }, { new: true }) as one
\* store step. A grant made for a settlement is counted in grants.
CreditsStep(p) ==
    /\ procs[p].pc = "connected"
    /\ procs[p].op = "updateCredits"
    /\ LET match == {u \in users : u._id = procs[p].userId}
       IN  IF match = {}
           THEN /\ procs' = [procs EXCEPT ![p] = Fail(procs[p], JsError("User credits update failed"))]
                /\ UNCHANGED <<users, grants>>
           ELSE LET u == CHOOSE u \in match : TRUE
                    new == [u EXCEPT !.creditBalance = IncBalance(u.creditBalance, procs[p].creditFee)]
                IN  /\ users' = (users \ {u}) \cup {new}
                    /\ procs' = [procs EXCEPT ![p] = OpEnd([procs[p] EXCEPT !.ret = Returned(Serialize(new)), !.granted = TRUE])]
                    /\ grants' = IF procs[p].handler = "settle"
                                 THEN [grants EXCEPT ![procs[p].pay.stripeId] = @ + 1]
                                 ELSE grants
    /\ UNCHANGED <<MONGODB_URL, WEBHOOK_SECRET, cached, promises, transactions, nextId, metadata>>

\* A caller of updateCredits(userId, creditFee).
CallUpdateCredits(p, userId, creditFee) ==
    /\ procs[p].pc = "idle"
    /\ connectToDatabase(p, [procs[p] EXCEPT !.handler = "direct", !.op = "updateCredits",
                                             !.userId = userId, !.creditFee = creditFee])
    /\ UNCHANGED <<MONGODB_URL, WEBHOOK_SECRET, users, transactions, nextId, metadata, grants>>

\* A caller of createUser(user), the parameters carried as in evt.
CallCreateUser(p, evt) ==
    /\ procs[p].pc = "idle"
    /\ connectToDatabase(p, [procs[p] EXCEPT !.handler = "direct", !.op = "createUser", !.evt = evt])
    /\ UNCHANGED <<MONGODB_URL, WEBHOOK_SECRET, users, transactions, nextId, metadata, grants>>

\* A caller of getUserById(userId).
CallGetUserById(p, userId) ==
    /\ procs[p].pc = "idle"
    /\ connectToDatabase(p, [procs[p] EXCEPT !.handler = "direct", !.op = "getUserById",
                                             !.evt = [NoEvent EXCEPT !.id = userId]])
    /\ UNCHANGED <<MONGODB_URL, WEBHOOK_SECRET, users, transactions, nextId, metadata, grants>>

\* A caller of updateUser(clerkId, user), the parameters carried as in evt.
CallUpdateUser(p, evt) ==
    /\ procs[p].pc = "idle"
    /\ connectToDatabase(p, [procs[p] EXCEPT !.handler = "direct", !.op = "updateUser", !.evt = evt])
    /\ UNCHANGED <<MONGODB_URL, WEBHOOK_SECRET, users, transactions, nextId, metadata, grants>>

\* A caller of deleteUser(clerkId).
CallDeleteUser(p, clerkId) ==
    /\ procs[p].pc = "idle"
    /\ connectToDatabase(p, [procs[p] EXCEPT !.handler = "direct", !.op = "deleteUser",
                                             !.evt = [NoEvent EXCEPT !.id = clerkId]])
    /\ UNCHANGED <<MONGODB_URL, WEBHOOK_SECRET, users, transactions, nextId, metadata, grants>>

\* ------------------------------------------------------- the Clerk webhook

\* The user action the webhook handler calls for an event type ("": none).
ActionOf(eventType) ==
    IF eventType = "user.created" THEN "createUser"
    ELSE IF eventType = "user.updated" THEN "updateUser"
    ELSE IF eventType = "user.deleted" THEN "deleteUser"
    ELSE ""

DeliverUnverified(p, evt, svix) ==
    /\ procs[p].pc = "idle"
    /\ IF ~WEBHOOK_SECRET
       THEN /\ procs' = [procs EXCEPT ![p] = [procs[p] EXCEPT !.handler = "POST", !.svix = svix, !.pc = "done",
                                                               !.ret = Thrown(JsError("Please add WEBHOOK_SECRET"))]]
            /\ UNCHANGED <<cached, promises>>
       ELSE IF ActionOf(evt.type) = ""
       THEN /\ procs' = [procs EXCEPT ![p] = [procs[p] EXCEPT !.handler = "POST", !.svix = svix, !.evt = evt,
                                                               !.pc = "done", !.status = 200]]
            /\ UNCHANGED <<cached, promises>>
       ELSE connectToDatabase(p, [procs[p] EXCEPT !.handler = "POST", !.svix = svix, !.evt = evt,
                                                  !.op = ActionOf(evt.type)])
    /\ UNCHANGED <<MONGODB_URL, WEBHOOK_SECRET, users, transactions, nextId, metadata, grants>>

\* POST from its start to its first store access: the webhook secret, the svix
\* headers, the signature, the dispatch on the event type and the call of the
\* user action. svix is "missing" (a header is absent), "invalid"
\* (verification throws) or "valid"; only a verified request yields the event.
Deliver(p, evt, svix) ==
    /\ procs[p].pc = "idle"
    /\ IF ~WEBHOOK_SECRET
       THEN /\ procs' = [procs EXCEPT ![p] = [procs[p] EXCEPT !.handler = "POST", !.svix = svix, !.pc = "done",
                                                               !.ret = Thrown(JsError("Please add WEBHOOK_SECRET"))]]
            /\ UNCHANGED <<cached, promises>>
       ELSE IF svix # "valid"
       THEN /\ procs' = [procs EXCEPT ![p] = [procs[p] EXCEPT !.handler = "POST", !.svix = svix, !.pc = "done",
                                                               !.status = 400]]
            /\ UNCHANGED <<cached, promises>>
       ELSE IF ActionOf(evt.type) = ""
       THEN /\ procs' = [procs EXCEPT ![p] = [procs[p] EXCEPT !.handler = "POST", !.svix = svix, !.evt = evt,
                                                               !.pc = "done", !.status = 200]]
            /\ UNCHANGED <<cached, promises>>
       ELSE connectToDatabase(p, [procs[p] EXCEPT !.handler = "POST", !.svix = svix, !.evt = evt,
                                                  !.op = ActionOf(evt.type)])
    /\ UNCHANGED <<MONGODB_URL, WEBHOOK_SECRET, users, transactions, nextId, metadata, grants>>

\* clerkClient.users.updateUserMetadata(id, { publicMetadata: { userId } }) and
\* the response; the call to Clerk may fail, and POST then throws.
PostMetadata(p) ==
    /\ procs[p].pc = "metadata"
    /\ \E ok \in BOOLEAN :
          IF ok
          THEN /\ metadata' = [metadata EXCEPT ![procs[p].evt.id] = procs[p].ret.doc._id]
               /\ procs' = [procs EXCEPT ![p].pc = "done", ![p].status = 200]
          ELSE /\ procs' = [procs EXCEPT ![p].pc = "done", ![p].ret = Thrown(JsError("Clerk request failed"))]
               /\ UNCHANGED metadata
    /\ UNCHANGED <<MONGODB_URL, WEBHOOK_SECRET, cached, promises, users, transactions, nextId, grants>>

\* --------------------------------------------------- purchase settlement

\* The settlement handler receives a completed payment and calls record.
DeliverPayment(p, pay) ==
    /\ procs[p].pc = "idle"
    /\ connectToDatabase(p, [procs[p] EXCEPT !.handler = "settle", !.op = "record", !.pay = pay])
    /\ UNCHANGED <<MONGODB_URL, WEBHOOK_SECRET, users, transactions, nextId, metadata, grants>>

\* A caller of record(payment) outside a settlement.
CallRecord(p, pay) ==
    /\ procs[p].pc = "idle"
    /\ connectToDatabase(p, [procs[p] EXCEPT !.handler = "direct", !.op = "record", !.pay = pay])
    /\ UNCHANGED <<MONGODB_URL, WEBHOOK_SECRET, users, transactions, nextId, metadata, grants>>

\* record: the insert of the Transaction behind the unique index on stripeId.
TransactionCreateStep(p) ==
    /\ procs[p].pc = "connected"
    /\ procs[p].op = "record"
    /\ LET doc == [_id |-> nextId, stripeId |-> procs[p].pay.stripeId, amount |-> procs[p].pay.amount,
                   plan |-> procs[p].pay.plan, credits |-> procs[p].pay.credits,
                   buyer |-> procs[p].pay.buyerId]
           key == ViolatedIndex(transactions, doc, TransactionUniqueKeys)
       IN  IF key = ""
           THEN /\ transactions' = transactions \cup {doc}
                /\ nextId' = nextId + 1
                /\ procs' = [procs EXCEPT ![p] = OpEnd([procs[p] EXCEPT !.ret = Returned(NoDoc)])]
           ELSE /\ procs' = [procs EXCEPT ![p] = Fail(procs[p], DuplicateKeyError(key))]
                /\ UNCHANGED <<transactions, nextId>>
    /\ UNCHANGED <<MONGODB_URL, WEBHOOK_SECRET, cached, promises, users, metadata, grants>>

\* Step 2 of the settlement: adjustBalance(buyerRef, +credits).
SettleCredit(p) ==
    /\ procs[p].pc = "credit"
    /\ connectToDatabase(p, [procs[p] EXCEPT !.op = "updateCredits", !.userId = procs[p].pay.buyerId,
                                             !.creditFee = procs[p].pay.credits, !.ret = Pending])
    /\ UNCHANGED <<MONGODB_URL, WEBHOOK_SECRET, users, transactions, nextId, metadata, grants>>

\* ------------------------------------------------- timeouts of the store

\* A store operation of p runs out of time before the store has applied it.
StoreTimeout(p) ==
    /\ procs[p].pc \in {"connected", "found"}
    /\ ~procs[p].lost
    /\ procs' = [procs EXCEPT ![p] = Fail(procs[p], TimeoutError)]
    /\ UNCHANGED <<MONGODB_URL, WEBHOOK_SECRET, cached, promises, users, transactions, nextId, metadata, grants>>

\* The response of p's pending store operation will not arrive in time: the
\* store applies the operation, and p sees Timeout.
Lose(p) ==
    /\ procs[p].pc \in {"connected", "found"}
    /\ ~procs[p].lost
    /\ procs' = [procs EXCEPT ![p].lost = TRUE]
    /\ UNCHANGED <<MONGODB_URL, WEBHOOK_SECRET, cached, promises, users, transactions, nextId, metadata, grants>>

\* ------------------------------------- the handlers as functions of the store

\* The User rows after createUser for a created event, run alone on rows.
CreateEffect(evt, rows, id) ==
    LET doc == NewUserDoc([clerkId |-> evt.id, email |-> evt.email, username |-> evt.username,
                           firstName |-> evt.first_name, lastName |-> evt.last_name,
                           photo |-> evt.image_url], id)
    IN  IF ViolatedIndex(rows, doc, UserUniqueKeys) = "" THEN rows \cup {doc} ELSE rows

\* The User rows after updateUser for an updated event, run alone on rows.
UpdateEffect(evt, rows) ==
    LET match == {u \in rows : u.clerkId = evt.id}
    IN  IF match = {} THEN rows
        ELSE LET u == CHOOSE u \in match : \A v \in match : u._id <= v._id
             IN  IF ViolatedIndex(rows, ApplyUpdate(u, evt), UserUniqueKeys) = ""
                 THEN (rows \ {u}) \cup {ApplyUpdate(u, evt)}
                 ELSE rows

\* The User rows after deleteUser for a deleted event, run alone on rows.
DeleteEffect(evt, rows) ==
    LET match == {u \in rows : u.clerkId = evt.id}
    IN  IF match = {} THEN rows
        ELSE rows \ {CHOOSE u \in match : \A v \in match : u._id <= v._id}

\* The User rows after POST has handled evt alone on rows, the next _id being id.
Handled(evt, rows, id) ==
    IF ActionOf(evt.type) = "createUser" THEN CreateEffect(evt, rows, id)
    ELSE IF ActionOf(evt.type) = "updateUser" THEN UpdateEffect(evt, rows)
    ELSE IF ActionOf(evt.type) = "deleteUser" THEN DeleteEffect(evt, rows)
    ELSE rows

\* The next _id after POST has handled evt alone on rows.
NextIdAfter(evt, rows, id) ==
    IF Handled(evt, rows, id) \ rows # {} /\ ActionOf(evt.type) = "createUser" THEN id + 1 ELSE id

\* ------------------------------------------------------------- input spaces

ClerkIds == {"c1", "c2"}

StripeIds == {"p1", "p2"}

Created(id, email, username) ==
    [type |-> "user.created", id |-> id, email |-> email, username |-> username,
     first_name |-> "Ann", last_name |-> "Lee", image_url |-> "img"]

Updated(id, username, first_name) ==
    [type |-> "user.updated", id |-> id, email |-> "", username |-> username,
     first_name |-> first_name, last_name |-> "Lee", image_url |-> "img"]

Deleted(id) ==
    [NoEvent EXCEPT !.type = "user.deleted", !.id = id]

\* The deliveries of the identity provider: c1 and c2 each with their own
\* created event, a created event of c2 carrying c1's email, renames of c1 (one
\* to c2's username), deletions, and an event type the handler ignores.
IdentityEvents ==
    {Created("c1", "e1", "u1"), Created("c2", "e2", "u2"), Created("c2", "e1", "u3"),
     Updated("c1", "u1", "Bea"), Updated("c1", "u2", "Ann"),
     Deleted("c1"), Deleted("c2"),
     [NoEvent EXCEPT !.type = "session.created", !.id = "s1"]}

\* The user every ledger and settlement run starts with: c1 as created.
User1 ==
    NewUserDoc([clerkId |-> "c1", email |-> "e1", username |-> "u1", photo |-> "img",
                firstName |-> "Ann", lastName |-> "Lee"], 1)

\* Spends and grants, one larger than the initial balance.
CreditFees == {5, -3, -20}

\* Completed payments: two of the existing user 1, one of a buyer that does
\* not resolve.
Payments ==
    {[stripeId |-> "p1", amount |-> 999, credits |-> 50, plan |-> "pro", buyerId |-> 1],
     [stripeId |-> "p2", amount |-> 999, credits |-> 50, plan |-> "pro", buyerId |-> 9]}

\* ------------------------------------------------------------ specifications

\* The store before any invocation: no connection, no documents.
InitCommon ==
    /\ WEBHOOK_SECRET = TRUE
    /\ cached = [conn |-> Null, promise |-> Null]
    /\ promises = <<>>
    /\ users = {}
    /\ transactions = {}
    /\ nextId = 1
    /\ metadata = [c \in ClerkIds |-> Null]
    /\ grants = [s \in StripeIds |-> 0]

\* The connection manager under concurrent first callers.
InitConn ==
    /\ MONGODB_URL \in BOOLEAN
    /\ procs = [p \in Callers |-> IdleProc]
    /\ InitCommon

NextConn ==
    \/ \E p \in Callers : CallConnect(p)
    \/ \E k \in 1..MaxAttempts : ConnectSettles(k)
    \/ \E p \in Callers : ConnectResume(p)

SpecConn == InitConn /\ [][NextConn]_vars

\* A process whose connection an earlier request has established.
InitConnected ==
    /\ MONGODB_URL = TRUE
    /\ cached = [conn |-> Handle(1), promise |-> 1]
    /\ promises = <<"fulfilled">>
    /\ transactions = {}
    /\ procs = [p \in Procs |-> IdleProc]
    /\ metadata = [c \in ClerkIds |-> Null]
    /\ grants = [s \in StripeIds |-> 0]

\* The identity sync: webhook deliveries in any order, duplicated, concurrent.
InitSync ==
    /\ InitConnected
    /\ WEBHOOK_SECRET \in BOOLEAN
    /\ users = {}
    /\ nextId = 1

NextSync ==
    \/ \E p \in Procs, evt \in IdentityEvents, svix \in {"missing", "invalid", "valid"} : Deliver(p, evt, svix)
    \/ \E p \in Procs : UserCreateStep(p)
    \/ \E p \in Procs : UserUpdateStep(p)
    \/ \E p \in Procs : UserFindOneStep(p)
    \/ \E p \in Procs : UserFindByIdAndDeleteStep(p)
    \/ \E p \in Procs : PostMetadata(p)

SpecSync == InitSync /\ [][NextSync]_vars

\* The credit ledger: concurrent adjustments and deletions of user 1.
InitLedger ==
    /\ InitConnected
    /\ WEBHOOK_SECRET = TRUE
    /\ users = {User1}
    /\ nextId = 2

NextLedger ==
    \/ \E p \in Procs, userId \in {1, 9}, creditFee \in CreditFees : CallUpdateCredits(p, userId, creditFee)
    \/ \E p \in Procs : CallDeleteUser(p, "c1")
    \/ \E p \in Procs : CreditsStep(p)
    \/ \E p \in Procs : UserFindOneStep(p)
    \/ \E p \in Procs : UserFindByIdAndDeleteStep(p)

SpecLedger == InitLedger /\ [][NextLedger]_vars

\* The purchase settlement: payment deliveries, duplicated and concurrent,
\* next to a deletion of the buyer.
InitSettle ==
    /\ InitConnected
    /\ WEBHOOK_SECRET = TRUE
    /\ users = {User1}
    /\ nextId = 2

NextSettle ==
    \/ \E p \in Procs, pay \in Payments : DeliverPayment(p, pay)
    \/ \E p \in Procs : TransactionCreateStep(p)
    \/ \E p \in Procs : SettleCredit(p)
    \/ \E p \in Procs : CreditsStep(p)
    \/ \E p \in Procs : CallDeleteUser(p, "c1")
    \/ \E p \in Procs : UserFindOneStep(p)
    \/ \E p \in Procs : UserFindByIdAndDeleteStep(p)
    \/ \E p \in Procs : CallUpdateUser(p, Updated("c1", "u1", "Bea"))
    \/ \E p \in Procs : UserUpdateStep(p)

SpecSettle == InitSettle /\ [][NextSettle]_vars

\* The events and the payment whose handling is retried.
RetryEvents ==
    {Created("c2", "e2", "u2"), Updated("c1", "u1", "Bea"), Deleted("c1")}

RetryPayments ==
    {[stripeId |-> "p1", amount |-> 999, credits |-> 50, plan |-> "pro", buyerId |-> 1]}

\* Delivery p is the first one, or the re-run of the delivery before it, which
\* handled the same event and ended in Timeout.
MayRun(p, handler, evt, pay) ==
    \/ p = 1
    \/ /\ p > 1
       /\ procs[p - 1].pc = "done"
       /\ procs[p - 1].cause = TimeoutError
       /\ procs[p - 1].handler = handler
       /\ procs[p - 1].evt = evt
       /\ procs[p - 1].pay = pay

Redeliver(p, evt) ==
    /\ MayRun(p, "POST", evt, NoPayment)
    /\ Deliver(p, evt, "valid")

RedeliverPayment(p, pay) ==
    /\ MayRun(p, "settle", NoEvent, pay)
    /\ DeliverPayment(p, pay)

\* Blind retry: one event or payment, handled again after each Timeout, with
\* store operations that time out before or after the store applies them.
InitRetry ==
    /\ InitConnected
    /\ WEBHOOK_SECRET = TRUE
    /\ users = {User1}
    /\ nextId = 2

NextRetry ==
    \/ \E p \in Procs, evt \in RetryEvents : Redeliver(p, evt)
    \/ \E p \in Procs, pay \in RetryPayments : RedeliverPayment(p, pay)
    \/ \E p \in Procs : UserCreateStep(p)
    \/ \E p \in Procs : UserUpdateStep(p)
    \/ \E p \in Procs : UserFindOneStep(p)
    \/ \E p \in Procs : UserFindByIdAndDeleteStep(p)
    \/ \E p \in Procs : PostMetadata(p)
    \/ \E p \in Procs : TransactionCreateStep(p)
    \/ \E p \in Procs : SettleCredit(p)
    \/ \E p \in Procs : CreditsStep(p)
    \/ \E p \in Procs : StoreTimeout(p)
    \/ \E p \in Procs : Lose(p)

SpecRetry == InitRetry /\ [][NextRetry]_vars

\* The operations the page layer calls, each alone or next to others, from a
\* process that has not connected yet, with or without MONGODB_URL.
ApiCallers == 1..NumApiCalls

ApiUsers ==
    {Created("c1", "e1", "u1"), Created("c2", "e2", "u2")}

InitApi ==
    /\ MONGODB_URL \in BOOLEAN
    /\ WEBHOOK_SECRET = TRUE
    /\ cached = [conn |-> Null, promise |-> Null]
    /\ promises = <<>>
    /\ users = {User1}
    /\ transactions = {}
    /\ nextId = 2
    /\ procs = [p \in ApiCallers |-> IdleProc]
    /\ metadata = [c \in ClerkIds |-> Null]
    /\ grants = [s \in StripeIds |-> 0]

NextApi ==
    \/ \E p \in ApiCallers, evt \in ApiUsers : CallCreateUser(p, evt)
    \/ \E p \in ApiCallers, userId \in ClerkIds : CallGetUserById(p, userId)
    \/ \E p \in ApiCallers, userId \in ClerkIds : CallUpdateUser(p, Updated(userId, "u1", "Bea"))
    \/ \E p \in ApiCallers, userId \in ClerkIds : CallDeleteUser(p, userId)
    \/ \E p \in ApiCallers, userId \in {1, 9} : CallUpdateCredits(p, userId, 5)
    \/ \E p \in ApiCallers, pay \in RetryPayments : CallRecord(p, pay)
    \/ \E k \in 1..MaxAttempts : ConnectSettles(k)
    \/ \E p \in ApiCallers : ConnectResume(p)
    \/ \E p \in ApiCallers : UserCreateStep(p)
    \/ \E p \in ApiCallers : UserGetStep(p)
    \/ \E p \in ApiCallers : UserUpdateStep(p)
    \/ \E p \in ApiCallers : UserFindOneStep(p)
    \/ \E p \in ApiCallers : UserFindByIdAndDeleteStep(p)
    \/ \E p \in ApiCallers : CreditsStep(p)
    \/ \E p \in ApiCallers : TransactionCreateStep(p)

SpecApi == InitApi /\ [][NextApi]_vars

\* Deletion and re-creation of c1 by webhook deliveries, next to adjustments
\* of its balance.
RecreateEvents ==
    {Deleted("c1"), Created("c1", "e1", "u1")}

InitRecreate ==
    /\ InitConnected
    /\ WEBHOOK_SECRET = TRUE
    /\ users = {User1}
    /\ nextId = 2

NextRecreate ==
    \/ \E p \in Procs, evt \in RecreateEvents : Deliver(p, evt, "valid")
    \/ \E p \in Procs, creditFee \in CreditFees : CallUpdateCredits(p, User1._id, creditFee)
    \/ \E p \in Procs : CreditsStep(p)
    \/ \E p \in Procs : UserFindOneStep(p)
    \/ \E p \in Procs : UserFindByIdAndDeleteStep(p)
    \/ \E p \in Procs : UserCreateStep(p)
    \/ \E p \in Procs : PostMetadata(p)

SpecRecreate == InitRecreate /\ [][NextRecreate]_vars

\* ------------------------------------------------------------------ claims

\* The documents of a collection that carry value v under key.
RowsWith(rows, key, v) ==
    {r \in rows : r[key] = v}

\* The adjustments of user userId that the store has applied.
Applied(userId) ==
    {p \in DOMAIN procs : /\ procs[p].op = "updateCredits"
                          /\ procs[p].userId = userId
                          /\ procs[p].ret.kind = "value"}

RECURSIVE SumFees(_)
SumFees(S) ==
    IF S = {} THEN 0
    ELSE LET p == CHOOSE p \in S : TRUE IN procs[p].creditFee + SumFees(S \ {p})

\* The deliveries of payment s.
Deliveries(s) ==
    {p \in DOMAIN procs : procs[p].handler = "settle" /\ procs[p].pay.stripeId = s}

\* Every delivery of payment s has finished and there has been one.
Settled(s) ==
    /\ Deliveries(s) # {}
    /\ \A p \in Deliveries(s) : procs[p].pc = "done"

\* C1: whatever the interleaving of concurrent updateCredits calls on an
\* existing user, the balance is the initial balance plus the sum of the
\* deltas of all the calls applied: no adjustment is lost.
C1_NoLostAdjustment ==
    \A u \in users :
        u._id = User1._id => u.creditBalance = User1.creditBalance + SumFees(Applied(u._id))

\* C1 witness: the calls +5 and -3 on user 1 have both returned and the
\* balance is the initial balance plus 2.
C1_Witness ==
    /\ \E p, q \in Procs :
          /\ p # q
          /\ p \in Applied(1) /\ q \in Applied(1)
          /\ procs[p].creditFee = 5 /\ procs[q].creditFee = -3
          /\ procs[p].pc = "done" /\ procs[q].pc = "done"
          /\ Cardinality(Applied(1)) = 2
    /\ \E u \in users : u._id = 1 /\ u.creditBalance = User1.creditBalance + 2

\* C2: when the same payment is settled more than once, in sequence or
\* concurrently, at most one Transaction carries its payment id and at most
\* one grant is applied; once all its deliveries have finished there is exactly
\* one Transaction, the balance of an existing buyer has grown by the credits
\* exactly once, and every delivery that found the payment recorded ended in
\* success without granting.
C2_SettledOnce ==
    /\ \A s \in StripeIds :
          /\ Cardinality(RowsWith(transactions, "stripeId", s)) <= 1
          /\ grants[s] <= 1
          /\ Settled(s) => Cardinality(RowsWith(transactions, "stripeId", s)) = 1
    /\ \A pay \in Payments, u \in users :
          u._id = pay.buyerId =>
              /\ u.creditBalance = User1.creditBalance + pay.credits * grants[pay.stripeId]
              /\ Settled(pay.stripeId) => u.creditBalance = User1.creditBalance + pay.credits
    /\ \A p \in Procs :
          procs[p].recorded = "AlreadyRecorded" =>
              /\ procs[p].pc = "done" /\ procs[p].status = 200
              /\ procs[p].ret.kind = "value" /\ ~procs[p].granted

\* C2 witness: payment p1 with 50 credits has been delivered twice, one
\* delivery recorded and granted, the other found it recorded, and the balance
\* is 60.
C2_Witness ==
    \E p, q \in Procs :
        /\ procs[p].pay.stripeId = "p1" /\ procs[q].pay.stripeId = "p1"
        /\ procs[p].pc = "done" /\ procs[q].pc = "done"
        /\ procs[p].recorded = "ok" /\ procs[p].granted
        /\ procs[q].recorded = "AlreadyRecorded"
        /\ \E u \in users : u._id = 1 /\ u.creditBalance = 60
        /\ Cardinality(RowsWith(transactions, "stripeId", "p1")) = 1

\* The callers of connectToDatabase that have returned a handle.
ReturnedHandle ==
    {p \in DOMAIN procs : procs[p].op = "connectToDatabase" /\ procs[p].pc = "done" /\ procs[p].ret.kind = "value"}

\* C3: over the life of the process at most one connection attempt is
\* started, all callers that return hold the same handle, which is the cached
\* one, and a cached handle is never replaced by another value.
C3_SingleConnection ==
    /\ [](/\ Len(promises) <= 1
          /\ \A p, q \in ReturnedHandle : procs[p].ret.conn = procs[q].ret.conn
          /\ \A p \in ReturnedHandle : procs[p].ret.conn = cached.conn)
    /\ [][cached.conn # Null => cached'.conn = cached.conn]_vars

\* C3 witness: two callers that started before any connection existed and one
\* that called after the handle was cached have all returned the handle.
C3_Witness ==
    \E p, q, r \in Callers :
        /\ p # q
        /\ {p, q, r} \subseteq ReturnedHandle
        /\ procs[p].awaiting # Null /\ procs[q].awaiting # Null
        /\ procs[r].awaiting = Null

\* The created events whose insert has been attempted, by outcome.
CreateAttempted(p) ==
    /\ procs[p].handler = "POST"
    /\ procs[p].op = "createUser"
    /\ procs[p].pc \in {"metadata", "done"}

\* C4: no two User documents share a Clerk id, whatever deliveries ran in
\* whatever interleaving; and the insert of a created event, when it succeeds
\* or is refused on the clerkId index (a replay, or the loser of two concurrent
\* identical events), leaves exactly one document with that Clerk id.
C4_OneUserPerIdentity ==
    /\ [](\A c \in ClerkIds : Cardinality(RowsWith(users, "clerkId", c)) <= 1)
    /\ [][\A p \in Procs :
            (/\ procs[p].op = "createUser" /\ procs[p].pc = "connected"
             /\ CreateAttempted(p)'
             /\ procs'[p].cause.key \in {"", "clerkId"})
            => Cardinality(RowsWith(users', "clerkId", procs[p].evt.id)) = 1]_vars

\* C4 witness: two deliveries of the created event of c1 have both run their
\* insert, one was refused on the clerkId index, and one document of c1 exists.
C4_Witness ==
    \E p, q \in Procs :
        /\ p # q
        /\ CreateAttempted(p) /\ CreateAttempted(q)
        /\ procs[p].evt = procs[q].evt /\ procs[p].evt.id = "c1"
        /\ procs[p].ret.kind = "value"
        /\ procs[q].cause.key = "clerkId"
        /\ Cardinality(RowsWith(users, "clerkId", "c1")) = 1

\* C5: a created event replayed for a Clerk id that has its document is
\* absorbed: the handler whose insert was refused on the clerkId index ends
\* with a success response and throws nothing.
C5_ReplayAbsorbed ==
    \A p \in Procs :
        (/\ procs[p].handler = "POST" /\ procs[p].evt.type = "user.created"
         /\ procs[p].pc = "done"
         /\ procs[p].cause.code = 11000 /\ procs[p].cause.key = "clerkId")
        => procs[p].status = 200 /\ procs[p].ret.kind = "value"

\* The error updateUser throws when no document matches.
UpdateNotFound ==
    JsError("Error: User update failed")

\* C6: an updated event for a Clerk id without a document creates none, in
\* any ordering of events: its store step leaves the User collection as it was
\* and updateUser throws its not-found error.
C6_UpdateNeverCreates ==
    [][\A p \in Procs :
         (/\ procs[p].op = "updateUser" /\ procs[p].pc = "connected"
          /\ RowsWith(users, "clerkId", procs[p].evt.id) = {}
          /\ procs'[p] # procs[p])
         => /\ users' = users
            /\ procs'[p].ret = Thrown(UpdateNotFound)]_vars

\* C6 witness: an updated event of c1 has been handled while c1 had no
\* document, and the collection holds no document of c1.
C6_Witness ==
    \E p \in Procs :
        /\ procs[p].evt.type = "user.updated" /\ procs[p].evt.id = "c1"
        /\ procs[p].pc = "done"
        /\ procs[p].ret = Thrown(UpdateNotFound)
        /\ RowsWith(users, "clerkId", "c1") = {}

\* C7: an updated event that arrives before its created event ends with the
\* handler reporting the condition as a result: the handler does not end in a
\* thrown, unhandled error.
C7_UpdateBeforeCreateReported ==
    \A p \in Procs :
        (/\ procs[p].handler = "POST" /\ procs[p].evt.type = "user.updated"
         /\ procs[p].pc = "done"
         /\ procs[p].cause = JsError("User update failed"))
        => procs[p].ret.kind # "error"

\* C8: a deleted event for a Clerk id without a document is a successful
\* no-op: the handler ends with a success response, not with a thrown error.
C8_DeleteMissingSucceeds ==
    \A p \in Procs :
        (/\ procs[p].handler = "POST" /\ procs[p].evt.type = "user.deleted"
         /\ procs[p].pc = "done"
         /\ procs[p].cause = JsError("User not found"))
        => procs[p].ret.kind = "value" /\ procs[p].status = 200

\* C9: every payment whose credits have been granted has its Transaction; a
\* delivery grants only after its own record succeeded, and never after record
\* failed as already recorded.
C9_RecordBeforeCredit ==
    /\ \A s \in StripeIds : grants[s] > 0 => RowsWith(transactions, "stripeId", s) # {}
    /\ \A p \in Procs :
          procs[p].handler = "settle" =>
              /\ procs[p].granted =>
                    /\ procs[p].recorded = "ok"
                    /\ RowsWith(transactions, "stripeId", procs[p].pay.stripeId) # {}
              /\ procs[p].op = "updateCredits" => procs[p].recorded = "ok"
              /\ procs[p].recorded = "AlreadyRecorded" => ~procs[p].granted

\* C9 witness: a delivery has recorded and granted, and a redelivery of the
\* same payment has stopped at already recorded.
C9_Witness ==
    \E p, q \in Procs :
        /\ procs[p].handler = "settle" /\ procs[p].granted /\ procs[p].pc = "done"
        /\ procs[q].handler = "settle" /\ procs[q].recorded = "AlreadyRecorded"
        /\ procs[q].pay.stripeId = procs[p].pay.stripeId
        /\ grants[procs[p].pay.stripeId] = 1

\* The deliveries of payment s that ended as a detected inconsistency.
Inconsistent(s) ==
    {p \in Deliveries(s) : procs[p].pc = "done" /\ procs[p].ret.kind = "error"
                           /\ procs[p].ret.error.name = "InconsistencyDetected"}

C11_InconsistencySurfaced ==
    /\ [](\A p \in DOMAIN procs :
            (/\ procs[p].handler = "settle"
             /\ procs[p].recorded = "ok"
             /\ procs[p].pc = "done"
             /\ procs[p].cause # NoError)
            => /\ procs[p].ret.kind = "error"
               /\ procs[p].ret.error.name = "InconsistencyDetected"
               /\ procs[p].status # 200
               /\ ~procs[p].granted
               /\ RowsWith(transactions, "stripeId", procs[p].pay.stripeId) # {})
    /\ [][\A p \in DOMAIN procs :
            (/\ procs[p].handler = "settle"
             /\ procs[p].op = "updateCredits"
             /\ procs[p].pc = "connected"
             /\ procs'[p].cause # NoError)
            => /\ users' = users
               /\ transactions' = transactions
               /\ grants' = grants]_vars

\* A settlement of p2, whose buyer does not resolve, has recorded the payment
\* and failed in the credit step.
C11_Witness ==
    \E p \in DOMAIN procs :
        /\ procs[p].handler = "settle"
        /\ procs[p].recorded = "ok"
        /\ procs[p].pc = "done"
        /\ procs[p].cause = JsError("User credits update failed")
        /\ RowsWith(transactions, "stripeId", procs[p].pay.stripeId) # {}

\* The deliveries made so far.
Delivered ==
    {p \in DOMAIN procs : procs[p].handler # "idle"}

\* The handling of the event has been re-run after a Timeout and has come to
\* rest: every delivery is done and the last one did not end in Timeout.
Retried ==
    /\ \E p \in Delivered : procs[p].cause = TimeoutError
    /\ \A p \in Delivered : procs[p].pc = "done"
    /\ \A p \in Delivered : (\A r \in Delivered : r <= p) => procs[p].cause # TimeoutError

\* The store after a single successful handling of the event or payment of
\* delivery p, from the initial store of the retry runs.
ExpectedUsers(p) ==
    IF procs[p].handler = "POST" THEN Handled(procs[p].evt, {User1}, 2)
    ELSE {[User1 EXCEPT !.creditBalance = IncBalance(@, procs[p].pay.credits)]}

ExpectedTransactions(p) ==
    IF procs[p].handler = "POST" THEN {}
    ELSE {[_id |-> 2, stripeId |-> procs[p].pay.stripeId, amount |-> procs[p].pay.amount,
           plan |-> procs[p].pay.plan, credits |-> procs[p].pay.credits,
           buyer |-> procs[p].pay.buyerId]}

\* C12 as stated: after a Timeout of a store operation, applied or not, the
\* re-run of the handler leaves the User rows, balances and Transaction rows of
\* a single successful handling of the event.
C12_BlindRetrySafe ==
    Retried => \A p \in Delivered : /\ users = ExpectedUsers(p)
                                    /\ transactions = ExpectedTransactions(p)

\* C12, amended: the re-run leaves the User rows of a single successful
\* handling for every identity event; for a payment it leaves the one
\* Transaction row and at most one grant, the balance being the initial one
\* plus the credits of the grants made, which may be none.
C12_RetryNeverTwice ==
    Retried => \A p \in Delivered :
        IF procs[p].handler = "POST"
        THEN users = ExpectedUsers(p) /\ transactions = {}
        ELSE /\ transactions = ExpectedTransactions(p)
             /\ grants[procs[p].pay.stripeId] <= 1
             /\ users = {[User1 EXCEPT !.creditBalance =
                            @ + grants[procs[p].pay.stripeId] * procs[p].pay.credits]}

\* A payment whose record timed out after the insert has been delivered again
\* and ended in success, the buyer never credited.
C12_Witness ==
    /\ Retried
    /\ \E p \in Delivered : /\ procs[p].handler = "settle"
                            /\ procs[p].status = 200
                            /\ procs[p].recorded = "AlreadyRecorded"
                            /\ grants[procs[p].pay.stripeId] = 0
                            /\ transactions = ExpectedTransactions(p)

\* C13: for each identity event and every reachable store, handling the event
\* twice in a row leaves the User rows that handling it once leaves; the store
\* steps of the handlers are the functions this is computed with.
C13_EventsIdempotent ==
    /\ [](\A evt \in IdentityEvents :
            LET once == Handled(evt, users, nextId)
            IN  Handled(evt, once, NextIdAfter(evt, users, nextId)) = once)
    /\ [][\A p \in DOMAIN procs :
            /\ (procs[p].pc = "connected" /\ procs[p].op = "createUser" /\ procs'[p] # procs[p])
                  => /\ users' = CreateEffect(procs[p].evt, users, nextId)
                     /\ nextId' = NextIdAfter(procs[p].evt, users, nextId)
            /\ (procs[p].pc = "connected" /\ procs[p].op = "updateUser" /\ procs'[p] # procs[p])
                  => users' = UpdateEffect(procs[p].evt, users)
            /\ (procs[p].pc = "connected" /\ procs[p].op = "deleteUser" /\ procs'[p] # procs[p])
                  => users' = users
            /\ (/\ procs[p].pc = "found"
                /\ procs'[p] # procs[p]
                /\ \E u \in users : u._id = procs[p].found /\ u.clerkId = procs[p].evt.id)
                  => users' = DeleteEffect(procs[p].evt, users)]_vars

\* The rename of c1 has been handled twice, both times to the end, and c1's
\* row is the renamed one, once.
C13_Witness ==
    /\ \E p, r \in DOMAIN procs :
          /\ p # r
          /\ procs[p].evt = Updated("c1", "u1", "Bea") /\ procs[p].status = 200
          /\ procs[r].evt = Updated("c1", "u1", "Bea") /\ procs[r].status = 200
    /\ \E u \in users : u.clerkId = "c1" /\ u.firstName = "Bea"
    /\ Cardinality(users) = 1

\* A record call that has failed and is done.
RecordFailed(p) ==
    /\ procs[p].op = "record"
    /\ procs[p].pc = "done"
    /\ procs[p].cause # NoError

\* C14: an insert attempt with a payment id that already has a Transaction row
\* leaves the Transaction rows as they are and, when the store's answer
\* arrives, fails with the duplicate-key error on stripeId, which the caller
\* takes as AlreadyRecorded; every other failure of record differs from it in
\* its error code and is not taken as AlreadyRecorded.
C14_AlreadyRecorded ==
    /\ [][\A p \in DOMAIN procs :
            (/\ procs[p].op = "record"
             /\ procs[p].pc = "connected"
             /\ procs'[p] # procs[p]
             /\ RowsWith(transactions, "stripeId", procs[p].pay.stripeId) # {})
            => /\ transactions' = transactions
               /\ procs'[p].lost \/ procs'[p].cause = TimeoutError
                    \/ (/\ procs'[p].cause = DuplicateKeyError("stripeId")
                        /\ procs'[p].recorded = "AlreadyRecorded")]_vars
    /\ [](\A p \in DOMAIN procs : RecordFailed(p) =>
            /\ procs[p].recorded \in {"AlreadyRecorded", "failed"}
            /\ procs[p].recorded = "AlreadyRecorded" <=> procs[p].cause = DuplicateKeyError("stripeId")
            /\ procs[p].recorded = "failed" => procs[p].cause.code # DuplicateKeyError("stripeId").code)

\* One record has failed as already recorded and another with a different
\* failure, the payment's one row in place.
C14_Witness ==
    /\ \E p, r \in DOMAIN procs :
          /\ RecordFailed(p) /\ procs[p].recorded = "AlreadyRecorded"
          /\ RecordFailed(r) /\ procs[r].recorded = "failed"
    /\ Cardinality(RowsWith(transactions, "stripeId", "p1")) = 1

\* C15: a Transaction row, once it exists, is neither modified nor removed by
\* any step: not by a settlement or its replay, an adjustment of the balance,
\* an update of the user or the deletion of the user who bought.
C15_TransactionsImmutable ==
    [][\A t \in transactions : t \in transactions']_vars

\* The buyer of a recorded payment has been deleted and the Transaction is
\* still there.
C15_Witness ==
    /\ \E t \in transactions : t.buyer = User1._id
    /\ \A u \in users : u._id # User1._id
    /\ \E p \in DOMAIN procs : /\ procs[p].op = "deleteUser"
                               /\ procs[p].pc = "done"
                               /\ procs[p].ret.kind = "value"
                               /\ procs[p].ret.doc # NoDoc

\* C16: User.create for a user whose identity id, email or username is held by
\* an existing row fails with the duplicate-key error, inserts no row and
\* changes no row.
C16_CreateRefusesDuplicates ==
    [][\A p \in DOMAIN procs :
         (/\ procs[p].pc = "connected"
          /\ procs[p].op = "createUser"
          /\ procs'[p] # procs[p]
          /\ \E u \in users : \/ u.clerkId = procs[p].evt.id
                              \/ u.email = procs[p].evt.email
                              \/ u.username = procs[p].evt.username)
         => /\ users' = users
            /\ nextId' = nextId
            /\ procs'[p].ret.kind = "error"
            /\ procs'[p].cause.code = 11000
            /\ procs'[p].cause.key \in {"clerkId", "email", "username"}
            /\ RowsWith(users, procs'[p].cause.key, procs[p].evt[
                 IF procs'[p].cause.key = "clerkId" THEN "id" ELSE procs'[p].cause.key]) # {}
            /\ procs'[p].ret.error.message = "Error: E11000 duplicate key error"]_vars

\* One createUser has been refused for its identity id and another for its
\* email, one row in the store.
C16_Witness ==
    /\ \E p, r \in DOMAIN procs :
          /\ procs[p].op = "createUser" /\ procs[p].cause = DuplicateKeyError("clerkId")
          /\ procs[r].op = "createUser" /\ procs[r].cause = DuplicateKeyError("email")
    /\ Cardinality(users) = 1

\* C17: a created event whose email or username is held by a row of another
\* identity id is not reported as success: POST ends without a 200 response,
\* the error thrown to its caller is typed as the duplicate-key failure (it
\* carries the store's error code and the violated index), and no row exists
\* for the new identity id because of it.
C17_ForeignDuplicatePropagates ==
    [][\A p \in DOMAIN procs :
         (/\ procs[p].handler = "POST"
          /\ procs[p].pc = "connected"
          /\ procs[p].op = "createUser"
          /\ procs'[p] # procs[p]
          /\ RowsWith(users, "clerkId", procs[p].evt.id) = {}
          /\ \E u \in users : u.email = procs[p].evt.email \/ u.username = procs[p].evt.username)
         => /\ procs'[p].pc = "done"
            /\ procs'[p].status # 200
            /\ procs'[p].ret.kind = "error"
            /\ procs'[p].ret.error.code = DuplicateKeyError("email").code
            /\ procs'[p].ret.error.key \in {"email", "username"}
            /\ RowsWith(users', "clerkId", procs[p].evt.id) = {}]_vars

\* The error kind a caller can read off an error that crosses the boundary of
\* the user actions: by its name or code where it has one, else by the message
\* the action gave it; "" when it is none of the kinds.
KindOf(err) ==
    IF err.name \in {"NotFound", "DuplicateKey", "ConfigurationError", "Timeout", "InconsistencyDetected"}
    THEN err.name
    ELSE IF err.code = 11000 \/ err.message = "Error: E11000 duplicate key error"
    THEN "DuplicateKey"
    ELSE IF err.message \in {"Error: User not found", "Error: User update failed",
                             "Error: User credits update failed"}
    THEN "NotFound"
    ELSE IF err.message \in {"Missing MONGODB_URL", "Error: Missing MONGODB_URL"}
    THEN "ConfigurationError"
    ELSE ""

\* C18: every operation of the user actions and of record ends with a result
\* value or with an error of one of the kinds NotFound, DuplicateKey,
\* ConfigurationError, Timeout, InconsistencyDetected.
C18_ErrorsCategorized ==
    \A p \in DOMAIN procs :
        (procs[p].handler = "direct" /\ procs[p].pc = "done")
        => \/ procs[p].ret.kind = "value"
           \/ procs[p].ret.kind = "error" /\ KindOf(procs[p].ret.error) # ""

\* C19: updateUser leaves every row of another identity id as it is, adds and
\* removes no row, and leaves the _id, identity id, email, credit balance and
\* plan id of the matching row unchanged: only firstName, lastName, username
\* and photo may change.
C19_UpdateFrame ==
    [][\A p \in DOMAIN procs :
         (/\ procs[p].pc = "connected"
          /\ procs[p].op = "updateUser"
          /\ procs'[p] # procs[p])
         => /\ Cardinality(users') = Cardinality(users)
            /\ \A u \in users :
                 IF u.clerkId # procs[p].evt.id
                 THEN u \in users'
                 ELSE \E v \in users' : /\ v._id = u._id
                                        /\ v.clerkId = u.clerkId
                                        /\ v.email = u.email
                                        /\ v.creditBalance = u.creditBalance
                                        /\ v.planId = u.planId]_vars

\* updateUser has renamed c1 after its balance had been moved off the default,
\* and the balance is still the moved one.
C19_Witness ==
    /\ \E p \in DOMAIN procs : /\ procs[p].op = "updateUser"
                               /\ procs[p].pc = "done"
                               /\ procs[p].ret.kind = "value"
                               /\ procs[p].ret.doc.creditBalance # DefaultCreditBalance
    /\ \E u \in users : /\ u.clerkId = "c1"
                        /\ u.firstName = "Bea"
                        /\ u.creditBalance # DefaultCreditBalance

\* C20: in every reachable state no two User rows share an email and no two
\* share a username, however creates and updates interleave; an update that
\* would give a user the username another user holds fails with the
\* duplicate-key error on username and changes no row.
C20_UniqueEmailUsername ==
    /\ [](\A u, v \in users : u # v => u.email # v.email /\ u.username # v.username)
    /\ [][\A p \in DOMAIN procs :
            (/\ procs[p].pc = "connected"
             /\ procs[p].op = "updateUser"
             /\ procs'[p] # procs[p]
             /\ RowsWith(users, "clerkId", procs[p].evt.id) # {}
             /\ \E u \in users : u.clerkId # procs[p].evt.id /\ u.username = procs[p].evt.username)
            => /\ users' = users
               /\ procs'[p].ret.kind = "error"
               /\ procs'[p].cause = DuplicateKeyError("username")]_vars

\* The rename of c1 to the username of c2 has been refused, both rows with
\* the usernames they had.
C20_Witness ==
    /\ \E p \in DOMAIN procs : /\ procs[p].evt = Updated("c1", "u2", "Ann")
                               /\ procs[p].cause = DuplicateKeyError("username")
    /\ \E u \in users : u.clerkId = "c1" /\ u.username = "u1"
    /\ \E u \in users : u.clerkId = "c2" /\ u.username = "u2"

\* C21: deleteUser for an identity id without a row fails with the not-found
\* error and changes nothing; its removing step, the row it found still in
\* place, removes exactly that row and returns it.
C21_DeleteContract ==
    [][\A p \in DOMAIN procs :
         /\ (/\ procs[p].pc = "connected"
             /\ procs[p].op = "deleteUser"
             /\ procs'[p] # procs[p]
             /\ RowsWith(users, "clerkId", procs[p].evt.id) = {})
            => /\ users' = users
               /\ procs'[p].pc = "done"
               /\ procs'[p].ret.kind = "error"
               /\ procs'[p].ret.error.message = "Error: User not found"
         /\ (/\ procs[p].pc = "found"
             /\ procs'[p] # procs[p]
             /\ RowsWith(users, "_id", procs[p].found) # {})
            => \E u \in users : /\ u._id = procs[p].found
                                /\ u.clerkId = procs[p].evt.id
                                /\ users' = users \ {u}
                                /\ procs'[p].pc = "done"
                                /\ procs'[p].ret.kind = "value"
                                /\ procs'[p].ret.doc = Serialize(u)]_vars

\* One deleteUser has removed c1 and returned its record, another has failed
\* for c2, which has no row.
C21_Witness ==
    /\ \E p \in DOMAIN procs : /\ procs[p].op = "deleteUser"
                               /\ procs[p].evt.id = "c1"
                               /\ procs[p].ret.kind = "value"
                               /\ procs[p].ret.doc = Serialize(User1)
    /\ \E p \in DOMAIN procs : /\ procs[p].op = "deleteUser"
                               /\ procs[p].evt.id = "c2"
                               /\ procs[p].ret.kind = "error"
                               /\ procs[p].ret.error.message = "Error: User not found"
    /\ users = {}

\* C22: updateCredits on an existing user succeeds for every creditFee,
\* positive or negative, and returns the user with the balance the row had
\* just before the step plus creditFee; there is no floor, a spend larger than
\* the balance leaves a negative balance.
C22_AdjustNoFloor ==
    [][\A p \in DOMAIN procs :
         (/\ procs[p].pc = "connected"
          /\ procs[p].op = "updateCredits"
          /\ procs'[p] # procs[p]
          /\ RowsWith(users, "_id", procs[p].userId) # {})
         => \E u \in users :
              /\ u._id = procs[p].userId
              /\ users' = (users \ {u}) \cup
                            {[u EXCEPT !.creditBalance = u.creditBalance + procs[p].creditFee]}
              /\ procs'[p].pc = "done"
              /\ procs'[p].ret.kind = "value"
              /\ procs'[p].ret.doc._id = u._id
              /\ procs'[p].ret.doc.creditBalance = u.creditBalance + procs[p].creditFee]_vars

\* A spend of 20 has succeeded on a balance below 20 and returned the
\* negative balance the row now has.
C22_Witness ==
    \E p \in DOMAIN procs :
        /\ procs[p].op = "updateCredits"
        /\ procs[p].creditFee = -20
        /\ procs[p].ret.kind = "value"
        /\ procs[p].ret.doc.creditBalance < 0
        /\ \E u \in users : u._id = procs[p].userId /\ u.creditBalance < 0

\* C23: updateCredits for a user reference without a row (never created, or
\* deleted before the step, a racing deleteUser included) fails with the
\* not-found error of the action, creates no row and changes no balance.
C23_AdjustUnresolved ==
    [][\A p \in DOMAIN procs :
         (/\ procs[p].pc = "connected"
          /\ procs[p].op = "updateCredits"
          /\ procs'[p] # procs[p]
          /\ RowsWith(users, "_id", procs[p].userId) = {})
         => /\ users' = users
            /\ nextId' = nextId
            /\ procs'[p].pc = "done"
            /\ procs'[p].ret.kind = "error"
            /\ procs'[p].ret.error.message = "Error: User credits update failed"]_vars

\* An adjustment of user 1 has failed because a deleteUser removed the row
\* first, and an adjustment of the unknown user 9 has failed too.
C23_Witness ==
    /\ users = {}
    /\ \E p \in DOMAIN procs : /\ procs[p].op = "deleteUser"
                               /\ procs[p].ret.kind = "value"
                               /\ procs[p].ret.doc # NoDoc
    /\ \E p \in DOMAIN procs : /\ procs[p].op = "updateCredits"
                               /\ procs[p].userId = User1._id
                               /\ procs[p].cause = JsError("User credits update failed")
    /\ \E p \in DOMAIN procs : /\ procs[p].op = "updateCredits"
                               /\ procs[p].userId = 9
                               /\ procs[p].cause = JsError("User credits update failed")

\* C24: without MONGODB_URL no connection attempt is ever started, the cached
\* handle and the cached attempt stay empty, and every connectToDatabase call
\* made ends at once in the error 'Missing MONGODB_URL', the configuration
\* failure.
C24_MissingUrl ==
    ~MONGODB_URL =>
        /\ promises = <<>>
        /\ cached = [conn |-> Null, promise |-> Null]
        /\ \A p \in DOMAIN procs :
             procs[p].pc # "idle" => /\ procs[p].pc = "done"
                                     /\ procs[p].ret.kind = "error"
                                     /\ procs[p].ret.error = JsError("Missing MONGODB_URL")

\* Without MONGODB_URL every caller has called and failed.
C24_Witness ==
    /\ ~MONGODB_URL
    /\ \A p \in DOMAIN procs : /\ procs[p].op = "connectToDatabase"
                               /\ procs[p].pc = "done"
                               /\ procs[p].ret.kind = "error"

\* C25: once the first connection attempt has been rejected it stays the
\* memoized attempt: no other attempt is started, no handle is ever cached,
\* and every call that has ended, whenever it was made, has failed with the
\* rejection of that attempt.
C25_FailureMemoized ==
    /\ []((promises # <<>> /\ promises[1] = "rejected") =>
            /\ Len(promises) = 1
            /\ cached = [conn |-> Null, promise |-> 1]
            /\ \A p \in DOMAIN procs :
                 /\ procs[p].pc = "awaitConn" => procs[p].awaiting = 1
                 /\ procs[p].pc = "done" => procs[p].ret = Thrown(ConnectionError))
    /\ [][(promises # <<>> /\ promises[1] = "rejected") =>
            /\ promises' = promises
            /\ cached' = cached
            /\ \A p \in DOMAIN procs :
                 (procs[p].pc = "idle" /\ procs'[p] # procs[p])
                 => procs'[p].pc = "awaitConn" /\ procs'[p].awaiting = 1]_vars

\* The one attempt has been rejected and every caller has failed with it.
C25_Witness ==
    /\ promises = <<"rejected">>
    /\ cached.conn = Null
    /\ \A p \in DOMAIN procs : procs[p].pc = "done" /\ procs[p].ret = Thrown(ConnectionError)

\* The deleteUser calls that have ended with the removed record.
Removers ==
    {p \in DOMAIN procs : /\ procs[p].op = "deleteUser"
                          /\ procs[p].pc = "done"
                          /\ procs[p].ret.kind = "value"
                          /\ procs[p].ret.doc # NoDoc}

\* C26: of the concurrent deleteUser calls for the one existing user, in every
\* interleaving at most one receives the removed record; as soon as any of
\* them has ended the row is removed and exactly one call has received it,
\* and every other call that has ended has a null result or the not-found
\* error.
C26_ConcurrentDelete ==
    /\ Cardinality(Removers) <= 1
    /\ \A p \in DOMAIN procs :
         (procs[p].op = "deleteUser" /\ procs[p].pc = "done")
         => /\ users = {}
            /\ Cardinality(Removers) = 1
            /\ \/ p \in Removers /\ procs[p].ret.doc._id = User1._id
               \/ procs[p].ret = Returned(NoDoc)
               \/ procs[p].ret = Thrown(JsError("Error: User not found"))

\* Three deleteUser calls for c1 have ended: one with the record, one with
\* null, one with the not-found error.
C26_Witness ==
    /\ Cardinality(Removers) = 1
    /\ \E p \in DOMAIN procs : procs[p].op = "deleteUser" /\ procs[p].pc = "done"
                               /\ procs[p].ret = Returned(NoDoc)
    /\ \E p \in DOMAIN procs : procs[p].op = "deleteUser" /\ procs[p].pc = "done"
                               /\ procs[p].ret = Thrown(JsError("Error: User not found"))

\* C27: there is no tombstone. A created event for an identity id whose row
\* has been removed, no other row holding its email or username, succeeds in
\* createUser and inserts a new row with the default credit balance and the
\* default plan id, whatever balance the removed row had.
C27_NoTombstone ==
    [][\A p \in DOMAIN procs :
         (/\ procs[p].handler = "POST"
          /\ procs[p].pc = "connected"
          /\ procs[p].op = "createUser"
          /\ procs'[p] # procs[p]
          /\ \A u \in users : /\ u.clerkId # procs[p].evt.id
                              /\ u.email # procs[p].evt.email
                              /\ u.username # procs[p].evt.username)
         => /\ procs'[p].ret.kind = "value"
            /\ procs'[p].pc = "metadata"
            /\ \E doc \in users' : /\ users' = users \cup {doc}
                                   /\ doc \notin users
                                   /\ doc._id = nextId
                                   /\ doc.clerkId = procs[p].evt.id
                                   /\ doc.creditBalance = DefaultCreditBalance
                                   /\ doc.planId = DefaultPlanId
                                   /\ procs'[p].ret.doc = Serialize(doc)]_vars

\* c1's row was removed with a balance other than the default, and the
\* created event delivered afterwards has given c1 a new row with the default
\* balance.
C27_Witness ==
    /\ \E p \in DOMAIN procs : /\ procs[p].evt = Deleted("c1")
                               /\ procs[p].status = 200
                               /\ procs[p].ret.doc # NoDoc
                               /\ procs[p].ret.doc.creditBalance # DefaultCreditBalance
    /\ \E p \in DOMAIN procs : /\ procs[p].evt = Created("c1", "e1", "u1")
                               /\ procs[p].ret.kind = "value"
                               /\ procs[p].ret.doc._id # User1._id
    /\ \E u \in users : /\ u.clerkId = "c1"
                        /\ u._id # User1._id
                        /\ u.creditBalance = DefaultCreditBalance
                        /\ u.planId = DefaultPlanId

\* A step that changes the User collection is a store step of a POST whose
\* request was verified and whose event is of a kind the handler acts on.
MutationsVerified ==
    [][users' # users =>
         \E p \in DOMAIN procs : /\ procs[p].handler = "POST"
                                 /\ procs[p].svix = "valid"
                                 /\ procs[p].op = ActionOf(procs[p].evt.type)
                                 /\ procs[p].op # ""
                                 /\ procs'[p] # procs[p]]_vars

\* C28 as stated: POST mutates the User store only for a verified request; a
\* request with a missing header or a failed verification ends with a 400
\* response, an event of another kind with a 200 response, both without a call
\* of a user action.
C28_VerifiedOnly ==
    /\ MutationsVerified
    /\ [](\A p \in DOMAIN procs :
            /\ (procs[p].handler = "POST" /\ procs[p].svix # "valid")
                 => procs[p].pc = "done" /\ procs[p].op = "none" /\ procs[p].status = 400
            /\ (procs[p].handler = "POST" /\ procs[p].svix = "valid" /\ procs[p].op = "none")
                 => /\ procs[p].pc = "done"
                    /\ procs[p].status = 200
                    /\ procs[p].evt # NoEvent
                    /\ ActionOf(procs[p].evt.type) = "")

\* C28, amended: the same with WEBHOOK_SECRET set; without it every request,
\* whatever its headers, ends in the error POST throws first, with no response
\* status and no call of a user action.
C28_VerifiedOnlyWithSecret ==
    /\ MutationsVerified
    /\ [](\A p \in DOMAIN procs :
            /\ (WEBHOOK_SECRET /\ procs[p].handler = "POST" /\ procs[p].svix # "valid")
                 => procs[p].pc = "done" /\ procs[p].op = "none" /\ procs[p].status = 400
            /\ (WEBHOOK_SECRET /\ procs[p].handler = "POST" /\ procs[p].svix = "valid" /\ procs[p].op = "none")
                 => /\ procs[p].pc = "done"
                    /\ procs[p].status = 200
                    /\ procs[p].evt # NoEvent
                    /\ ActionOf(procs[p].evt.type) = ""
            /\ (~WEBHOOK_SECRET /\ procs[p].handler = "POST")
                 => /\ procs[p].pc = "done"
                    /\ procs[p].op = "none"
                    /\ procs[p].status = 0
                    /\ procs[p].ret = Thrown(JsError("Please add WEBHOOK_SECRET"))
                    /\ users = {})

\* With the secret set, a request without a header and one with a bad
\* signature have been answered 400 and a verified event of another kind 200,
\* the store as it was.
C28_Witness ==
    /\ WEBHOOK_SECRET
    /\ \E p \in DOMAIN procs : procs[p].svix = "missing" /\ procs[p].status = 400
    /\ \E p \in DOMAIN procs : procs[p].svix = "invalid" /\ procs[p].status = 400
    /\ \E p \in DOMAIN procs : /\ procs[p].svix = "valid"
                               /\ procs[p].evt.type = "session.created"
                               /\ procs[p].status = 200
    /\ users = {}

\* C29: the metadata write of a created event is issued only by a delivery
\* whose own createUser has returned the inserted row, and it carries that
\* row's _id; a delivery whose insert fails ends without reaching the write.
\* So a replay of a created event whose row is in place ends on the duplicate,
\* changes no metadata, and a failed metadata write is not made up for by it.
C29_MetadataAfterInsert ==
    /\ [](\A p \in DOMAIN procs :
            procs[p].pc = "metadata"
            => /\ procs[p].op = "createUser"
               /\ procs[p].cause = NoError
               /\ procs[p].ret.kind = "value"
               /\ procs[p].ret.doc # NoDoc
               /\ procs[p].ret.doc.clerkId = procs[p].evt.id)
    /\ [][\A c \in ClerkIds :
            metadata'[c] # metadata[c]
            => \E p \in DOMAIN procs : /\ procs[p].pc = "metadata"
                                       /\ procs'[p].pc = "done"
                                       /\ procs[p].evt.id = c
                                       /\ metadata'[c] = procs[p].ret.doc._id]_vars
    /\ [][\A p \in DOMAIN procs :
            (/\ procs[p].pc = "connected"
             /\ procs[p].op = "createUser"
             /\ procs'[p] # procs[p]
             /\ RowsWith(users, "clerkId", procs[p].evt.id) # {})
            => /\ procs'[p].pc = "done"
               /\ procs'[p].ret.kind = "error"
               /\ procs'[p].status # 200
               /\ metadata' = metadata]_vars

\* The created event of c1 has inserted the row and failed in its metadata
\* write; its replay has ended on the duplicate; c1's metadata is still unset.
C29_Witness ==
    /\ \E u \in users : u.clerkId = "c1"
    /\ metadata["c1"] = Null
    /\ \E p \in DOMAIN procs : /\ procs[p].evt = Created("c1", "e1", "u1")
                               /\ procs[p].pc = "done"
                               /\ procs[p].ret = Thrown(JsError("Clerk request failed"))
    /\ \E p \in DOMAIN procs : /\ procs[p].evt = Created("c1", "e1", "u1")
                               /\ procs[p].pc = "done"
                               /\ procs[p].cause = DuplicateKeyError("clerkId")

====
